---- MODULE Spec2Model ----
(***************************************************************************)
(* Model of the Postman exporter (share-script/postman-exporter.py).       *)
(*                                                                         *)
(* One run of export_postman_collections is a sequential program: validate *)
(* the configuration, create the export directory, resolve the workspace,  *)
(* export the collections, export the environments, write the summary.     *)
(* The remote API is the environment: every make_request either raises or  *)
(* returns a JSON value chosen nondeterministically.  The filesystem       *)
(* persists from one run to the next; everything else is local to a run.   *)
(***************************************************************************)
EXTENDS Integers, Sequences, FiniteSets, TLC

\* ------------------------------------------------------------------ bounds
MaxRuns == 2          \* successive runs of the exporter on one filesystem
MaxItems == 2         \* longest collection listing
MaxEnvs == 1          \* longest environment listing
MaxWorkspaces == 2    \* longest workspace listing
MaxRequests == 3      \* HTTP requests issued in one behaviour, all runs together
MaxNameLen == 3       \* longest name sanitized on its own

\* -------------------------------------------------------------- JSON values
\* A JSON document is a record.  Two document bodies tell an old version of a
\* resource from a new one.
Docs == { [info |-> "v1"], [info |-> "v2"] }

\* Bodies make_request can return for GET /collections/{id}: the documented
\* envelope {"collection": {...}}, or an object without that field.
CollectionResponses ==
    { [collection |-> d] : d \in Docs } \cup { [error |-> "unexpected"] }

\* Bodies make_request can return for GET /environments/{id}.
EnvironmentResponses == { [environment |-> d] : d \in Docs }

\* What make_request raises: HTTPError (401/404 get a hint), URLError,
\* JSONDecodeError, each re-raised as Exception(message).
RequestErrors ==
    { "HTTP Error 404: Not Found (Resource not found)",
      "Connection error: unreachable" }

\* make_request(url): the set of its outcomes when the remote may answer with
\* any body of `bodies`.
make_request(bodies) ==
    { [ok |-> TRUE, body |-> b] : b \in bodies }
      \cup { [ok |-> FALSE, error |-> e] : e \in RequestErrors }

\* ------------------------------------------------------------ configuration
Absent == "<absent>"     \* config.get('api_key') when the key is not in the dict
valid_workspace_types == << "personal", "team", "private", "public", "partner", "all" >>

\* The configurations a run is started with: the three ways validation can
\* fail; a workspace given by id, with every combination of the two toggles
\* (and once with another type and a name, which get_workspace then ignores);
\* a workspace looked up by type and name.
BaseConfig ==
    [ api_key             |-> "PMAK-1",
      workspace_type      |-> "team",
      workspace_name      |-> "",
      workspace_id        |-> "w9",
      export_directory    |-> "postman_exports",
      include_timestamp   |-> TRUE,
      export_environments |-> FALSE ]

InvalidConfigs ==
    { [ BaseConfig EXCEPT !.api_key = k ] : k \in { Absent, "" } }
      \cup { [ BaseConfig EXCEPT !.workspace_type = "bogus" ] }

ByIdConfigs ==
    { [ BaseConfig EXCEPT !.include_timestamp = ts, !.export_environments = ee ]
        : ts \in BOOLEAN, ee \in BOOLEAN }
      \cup { [ BaseConfig EXCEPT !.workspace_type = "all", !.workspace_name = "N2" ] }

LookupConfigs ==
    { [ BaseConfig EXCEPT !.workspace_id = "", !.workspace_type = t,
                          !.workspace_name = n ]
        : t \in { "team", "all" }, n \in { "", "N2" } }

ConfigInputs == InvalidConfigs \cup ByIdConfigs \cup LookupConfigs

SeqRange(s) == { s[k] : k \in DOMAIN s }

\* validate_config without its credential check.
validate_config_type_only(cfg) ==
    IF cfg.workspace_type \notin SeqRange(valid_workspace_types)
    THEN [ ok |-> FALSE, kind |-> "ValueError", msg |-> "Invalid workspace_type" ]
    ELSE [ ok |-> TRUE ]

\* validate_config: the ValueError it raises, or "ok".
validate_config(cfg) ==
    IF cfg.api_key \in { Absent, "" }
    THEN [ ok |-> FALSE, kind |-> "ValueError", msg |-> "API key is required" ]
    ELSE IF cfg.workspace_type \notin SeqRange(valid_workspace_types)
    THEN [ ok |-> FALSE, kind |-> "ValueError", msg |-> "Invalid workspace_type" ]
    ELSE [ ok |-> TRUE ]

\* ------------------------------------------------------------- sanitization
AlnumChars == { "a", "e", "i", "m", "n", "o", "r", "t", "v", "1", "2" }
isalnum(c) == c \in AlnumChars

SanitizeChar(c) == IF isalnum(c) \/ c \in { " ", "-", "_" } THEN c ELSE "_"

\* A left strip that drops one space only.
lstrip_once(s) == IF s # << >> /\ Head(s) = " " THEN Tail(s) ELSE s

RECURSIVE lstrip(_)
lstrip(s) == IF s # << >> /\ Head(s) = " " THEN lstrip(Tail(s)) ELSE s

RECURSIVE rstrip(_)
rstrip(s) ==
    IF s # << >> /\ s[Len(s)] = " " THEN rstrip(SubSeq(s, 1, Len(s) - 1)) ELSE s

strip(s) == rstrip(lstrip(s))

\* safe_name = "".join(c if c.isalnum() or c in (' ', '-', '_') else '_' ...).strip()
safe_name(name) == strip([ k \in DOMAIN name |-> SanitizeChar(name[k]) ])


\* --------------------------------------------------------------- filesystem
None == [ None |-> TRUE ]      \* Python's None

\* Path of a directory or a file under an export directory.  `sub` is "" for
\* the export directory itself, else "collections" or "environments"; a file
\* name stands for "<name>.json".
DirPath(dir, sub) == [ dir |-> dir, sub |-> sub ]
FilePath(dir, sub, name) == [ dir |-> dir, sub |-> sub, name |-> name ]
SummaryName == << "export_summary" >>

\* A write that leaves an existing file as it is (exclusive creation).
WriteFile_keep_existing(fs, path, content) ==
    [ p \in (DOMAIN fs) \cup { path } |-> IF p \in DOMAIN fs THEN fs[p] ELSE content ]

\* open(filename, 'w') followed by json.dump(content, f): creates the file or
\* replaces what it held.
WriteFile(fs, path, content) ==
    [ p \in (DOMAIN fs) \cup { path } |-> IF p = path THEN content ELSE fs[p] ]

\* The names of the files of directory <dir>/<sub>.
FileNames(fs, dir, sub) ==
    { p.name : p \in { q \in DOMAIN fs : q.dir = dir /\ q.sub = sub } }

\* dir_name with the timestamp suffix forgotten.
dir_name_no_timestamp(cfg, now) == << cfg.export_directory >>

\* dir_name of create_export_directory; `now` is the clock second strftime
\* formats into the suffix.
dir_name(cfg, now) ==
    IF cfg.include_timestamp
    THEN << cfg.export_directory, now >>
    ELSE << cfg.export_directory >>

\* os.makedirs(..., exist_ok=True) of the export directory and its
\* subdirectories: directories are added, nothing is removed.
create_export_directory(ds, cfg, now) ==
    ds \cup { DirPath(dir_name(cfg, now), ""),
              DirPath(dir_name(cfg, now), "collections") }
       \cup ( IF cfg.export_environments
              THEN { DirPath(dir_name(cfg, now), "environments") }
              ELSE { } )

\* ------------------------------------------------------ workspace resolution
WorkspaceInputs ==
    { [ id |-> "w1", type |-> "personal", name |-> "N1" ],
      [ id |-> "w2", type |-> "team",     name |-> "N1" ],
      [ id |-> "w3", type |-> "team",     name |-> "N2" ] }

SeqsUpTo(S, n) == UNION { [ 1..k -> S ] : k \in 0..n }

\* Bodies of GET /workspaces: {"workspaces": [...]}, or an object without
\* that field.
WorkspaceListResponses ==
    { [ workspaces |-> l ] : l \in SeqsUpTo(WorkspaceInputs, MaxWorkspaces) }
      \cup { [ message |-> "ok" ] }

\* dict.get(key, default)
Get(d, key, default) == IF key \in DOMAIN d THEN d[key] ELSE default

\* The filter with the type test left out.
Keeps_name_only(cfg, workspace) ==
    ~ ( cfg.workspace_name # "" /\ workspace.name # cfg.workspace_name )

\* The filter loop of get_workspace: a workspace is kept unless the type
\* filter or the name filter skips it.
Keeps(cfg, workspace) ==
    /\ ~ ( cfg.workspace_type # "all" /\ workspace.type # cfg.workspace_type )
    /\ ~ ( cfg.workspace_name # "" /\ workspace.name # cfg.workspace_name )

filtered_workspaces(cfg, listing) ==
    SelectSeq(listing, LAMBDA w : Keeps(cfg, w))

\* The message of the exception raised when the filter leaves nothing.
no_match_msg(cfg) ==
    << "No ", cfg.workspace_type, " workspace found" >>
      \o ( IF cfg.workspace_name # ""
           THEN << " with name '", cfg.workspace_name, "'" >>
           ELSE << >> )

\* Selecting the last match instead of the first.
selected_workspace_last(filtered) == filtered[Len(filtered)]

\* The workspace get_workspace selects from a non-empty filtered list.
selected_workspace(filtered) == filtered[1]

\* Listing the workspaces whatever the configuration says.
needs_listing_always(cfg) == TRUE

\* TRUE when get_workspace has to list the workspaces.
needs_listing(cfg) == cfg.workspace_id = ""

\* get_workspace once the listing call (if any) has answered with `r`.
get_workspace(cfg, r) ==
    IF ~ needs_listing(cfg)
    THEN [ raised |-> FALSE, id |-> cfg.workspace_id, info |-> None,
           listing |-> << >> ]
    ELSE IF ~ r.ok
    THEN [ raised |-> TRUE, msg |-> << "Failed to fetch workspaces: ", r.error >>,
           listing |-> << >> ]
    ELSE LET listing == Get(r.body, "workspaces", << >>)
             filtered == filtered_workspaces(cfg, listing)
         IN  IF listing = << >>
             THEN [ raised |-> TRUE, msg |-> << "No workspaces found" >>,
                    listing |-> listing ]
             ELSE IF filtered = << >>
             THEN [ raised |-> TRUE, msg |-> no_match_msg(cfg), listing |-> listing ]
             ELSE [ raised |-> FALSE,
                    id |-> selected_workspace(filtered).id,
                    info |-> selected_workspace(filtered),
                    listing |-> listing ]

\* ------------------------------------------------------------ item listings
NameInputs == { << "a" >>, << "a", "/" >>, << "a", "_" >> }

CollectionIds == << "c1", "c2", "c3", "c4" >>

CollectionItems(k) == { [ id |-> CollectionIds[k], name |-> n ] : n \in NameInputs }

\* Collection listings: item k of a listing carries the k-th id.
CollectionListings ==
    UNION { { l \in [ 1..k -> UNION { CollectionItems(j) : j \in 1..k } ] :
                \A j \in 1..k : l[j] \in CollectionItems(j) }
            : k \in 0..MaxItems }

CollectionListResponses ==
    { [ collections |-> l ] : l \in CollectionListings } \cup { [ message |-> "ok" ] }

\* Environment summaries nested in the workspace detail; the name is optional.
EnvironmentItems ==
    { [ id |-> << "1" >>, name |-> << "a", "/" >> ], [ id |-> << "2" >> ] }

WorkspaceDetailResponses ==
    { [ workspace |-> [ environments |-> l ] ]
        : l \in SeqsUpTo(EnvironmentItems, MaxEnvs) }
      \cup { [ workspace |-> [ id |-> "w" ] ], [ message |-> "ok" ] }

\* env.get('name', f'environment_{env_id}')
env_name(env) ==
    Get(env, "name",
        << "e", "n", "v", "i", "r", "o", "n", "m", "e", "n", "t", "_" >> \o env.id)

\* ------------------------------------------------------------ one item step
\* Unwrapping that writes an envelope-less response as it is.
unwrap_lenient(collection_data) ==
    IF "collection" \in DOMAIN collection_data
    THEN [ ok |-> TRUE, content |-> collection_data.collection ]
    ELSE [ ok |-> TRUE, content |-> collection_data ]

\* Unwrapping that checks for the envelope and then writes the whole response.
unwrap_keep_envelope(collection_data) ==
    IF "collection" \in DOMAIN collection_data
    THEN [ ok |-> TRUE, content |-> collection_data ]
    ELSE [ ok |-> FALSE ]

\* The unwrapping of a collection fetch: raises when the 'collection' field is
\* missing, else yields the inner object.
unwrap(collection_data) ==
    IF "collection" \in DOMAIN collection_data
    THEN [ ok |-> TRUE, content |-> collection_data.collection ]
    ELSE [ ok |-> FALSE ]

\* Environments are written as fetched.
as_fetched(env_data) == [ ok |-> TRUE, content |-> env_data ]

\* exported_count incremented before the fetch is known to have worked.
next_count_always(count, saved) == count + 1

\* exported_count after an item: incremented only after the file was saved.
next_count(count, saved) == IF saved THEN count + 1 ELSE count

\* A loop that a failed item ends.
next_item_abort(k, n, saved) == IF saved THEN k + 1 ELSE n + 1

\* The loop index after an item: the except clause only prints.
next_item(k, n, saved) == k + 1


\* -------------------------------------------------------------------- state
VARIABLES
    pc,                 \* where the run is; "idle" before the first run
    runs,               \* runs started so far
    clock,              \* datetime.now(), in seconds
    dirs,               \* filesystem: the directories that exist
    files,              \* filesystem: path -> content of every file
    preDirs, preFiles,  \* the filesystem as the current run found it
    config,             \* the configuration of the current run
    export_dir,         \* export_postman_collections: export_dir (<< >> before it is set)
    workspaces,         \* get_workspace: the listing it filtered
    workspace_id,       \* export_postman_collections: workspace_id
    workspace_info,     \* export_postman_collections: workspace_info
    netlog,             \* the make_request calls of the run, in order
    collections,        \* export_collections: the listing
    collLog,            \* per collection attempted: what was fetched, whether written
    collections_count,  \* export_postman_collections: collections_count
    environments,       \* export_environments: the listing
    envLog,             \* per environment attempted: what was fetched, whether written
    environments_count, \* export_postman_collections: environments_count
    i,                  \* the running loop's index (enumerate, from 1)
    exported_count,     \* the running loop's exported_count
    requests,           \* make_request calls issued since the start
    error,              \* the exception that ended the run, or None
    result,             \* what export_postman_collections returned, or None
    san_pc,             \* sanitization on its own: "off", "input", "once", "twice"
    san_name,           \* the display name given
    san_once,           \* safe_name of it
    san_twice,          \* safe_name of that
    summary_writes,     \* times the run has written export_summary.json
    ui_pc,              \* front-end: "off", "idle", "validate", "resolve", "call", "export",
                        \*            "shown", "failed"
    ui_config,          \* front-end: config (st.session_state.config)
    ui_workspace_id,    \* front-end: main's local workspace_id
    ui_workspace_info,  \* front-end: main's local workspace_info
    session_export_results,  \* front-end: st.session_state.export_results
    session_workspace_info   \* front-end: st.session_state.workspace_info

fsVars == << dirs, files >>
ghostVars == << preDirs, preFiles >>
wsVars == << workspaces, workspace_id, workspace_info >>
collVars == << collections, collLog, collections_count >>
envVars == << environments, envLog, environments_count >>
loopVars == << i, exported_count >>
sanVars == << san_pc, san_name, san_once, san_twice >>
uiVars == << ui_pc, ui_config, ui_workspace_id, ui_workspace_info,
             session_export_results, session_workspace_info >>
runVars == << pc, runs, clock, requests, fsVars, ghostVars, config, export_dir, wsVars,
              netlog, collVars, envVars, loopVars, error, result, summary_writes >>
vars == << pc, runs, clock, requests, fsVars, ghostVars, config, export_dir, wsVars, netlog,
           collVars, envVars, loopVars, error, result, summary_writes, sanVars,
           uiVars >>

NoFiles == [ p \in { } |-> None ]
NoResponse == [ raised |-> TRUE ]

\* The state before the first run.
RunInit ==
    /\ pc = "idle"
    /\ runs = 0
    /\ clock = 0
    /\ dirs = { }
    /\ files = NoFiles
    /\ preDirs = { }
    /\ preFiles = NoFiles
    /\ config = None
    /\ export_dir = << >>
    /\ workspaces = << >>
    /\ workspace_id = None
    /\ workspace_info = None
    /\ netlog = << >>
    /\ collections = << >>
    /\ collLog = << >>
    /\ collections_count = 0
    /\ environments = << >>
    /\ envLog = << >>
    /\ environments_count = 0
    /\ i = 0
    /\ exported_count = 0
    /\ requests = 0
    /\ error = None
    /\ result = None
    /\ summary_writes = 0

\* No front-end: the exporter is run as a script.
UiOff ==
    /\ ui_pc = "off"
    /\ ui_config = None
    /\ ui_workspace_id = None
    /\ ui_workspace_info = None
    /\ session_export_results = None
    /\ session_workspace_info = None

Init ==
    /\ RunInit
    /\ UiOff
    /\ san_pc = "off"
    /\ san_name = << >>
    /\ san_once = << >>
    /\ san_twice = << >>

Call(name, arg, r) == [ call |-> name, arg |-> arg, ok |-> r.ok ]

\* ------------------------------------------------------------------ actions
\* export_postman_collections(config) is called: a new run begins, `dt`
\* seconds after the previous one began (only whether two runs fall into the
\* same second matters, so a gap is 0 or 1).
BeginRun(cfg, dt) ==
    /\ pc \in { "idle", "done", "failed" }
    /\ runs < MaxRuns
    /\ pc' = "validate"
    /\ runs' = runs + 1
    /\ config' = cfg
    /\ preDirs' = dirs
    /\ preFiles' = files
    /\ export_dir' = << >>
    /\ workspaces' = << >>
    /\ workspace_id' = None
    /\ workspace_info' = None
    /\ netlog' = << >>
    /\ collections' = << >>
    /\ collLog' = << >>
    /\ collections_count' = 0
    /\ environments' = << >>
    /\ envLog' = << >>
    /\ environments_count' = 0
    /\ i' = 0
    /\ exported_count' = 0
    /\ error' = None
    /\ result' = None
    /\ runs = 0 => dt = 0
    /\ clock' = clock + dt
    /\ summary_writes' = 0
    /\ UNCHANGED << requests, fsVars, sanVars >>

\* main of postman-exporter.py calls it with the script's configuration.
StartRun(cfg, dt) ==
    /\ BeginRun(cfg, dt)
    /\ UNCHANGED uiVars

\* validate_config(config)
ValidateConfig ==
    /\ pc = "validate"
    /\ LET v == validate_config(config)
       IN  IF v.ok
           THEN pc' = "mkdir" /\ error' = error
           ELSE pc' = "failed" /\ error' = [ kind |-> v.kind, msg |-> << v.msg >> ]
    /\ UNCHANGED << sanVars, uiVars, summary_writes, runs, clock, requests, fsVars, ghostVars, config, export_dir, wsVars, netlog,
                    collVars, envVars, loopVars, result >>

\* export_dir = create_export_directory(config)
CreateExportDirectory ==
    /\ pc = "mkdir"
    /\ dirs' = create_export_directory(dirs, config, clock)
    /\ export_dir' = dir_name(config, clock)
    /\ pc' = "resolve"
    /\ UNCHANGED << sanVars, uiVars, summary_writes, runs, clock, requests, files, ghostVars, config, wsVars, netlog,
                    collVars, envVars, loopVars, error, result >>

\* workspace_result = get_workspace(config), and its unpacking
GetWorkspace ==
    /\ pc = "resolve"
    /\ needs_listing(config) => requests < MaxRequests
    /\ requests' = IF needs_listing(config) THEN requests + 1 ELSE requests
    /\ \E r \in make_request(WorkspaceListResponses) :
         LET w == get_workspace(config, r)
         IN  /\ netlog' = IF needs_listing(config)
                          THEN Append(netlog, Call("list_workspaces", "", r))
                          ELSE netlog
             /\ workspaces' = w.listing
             /\ IF w.raised
                THEN /\ pc' = "failed"
                     /\ error' = [ kind |-> "Exception", msg |-> w.msg ]
                     /\ UNCHANGED << workspace_id, workspace_info >>
                ELSE /\ pc' = "collections"
                     /\ workspace_id' = w.id
                     /\ workspace_info' = w.info
                     /\ error' = error
    /\ UNCHANGED << sanVars, uiVars, summary_writes, runs, clock, fsVars, ghostVars, config, export_dir,
                    collVars, envVars, loopVars, result >>


\* export_collections: the listing call, up to the first loop iteration
ListCollections ==
    /\ pc = "collections"
    /\ requests < MaxRequests
    /\ requests' = requests + 1
    /\ \E r \in make_request(CollectionListResponses) :
         LET listing == IF r.ok THEN Get(r.body, "collections", << >>) ELSE << >>
         IN  /\ netlog' = Append(netlog, Call("list_collections", workspace_id, r))
             /\ collections' = listing
             /\ IF listing = << >>
                THEN \* the call failed (printed, return 0) or nothing to export
                     /\ pc' = "environments"
                     /\ UNCHANGED loopVars
                ELSE /\ pc' = "coll_loop"
                     /\ i' = 1
                     /\ exported_count' = 0
    /\ workspaces' = << >>
    /\ UNCHANGED << sanVars, uiVars, summary_writes, runs, clock, fsVars, ghostVars, config, export_dir, workspace_id,
                    workspace_info, collLog, collections_count, envVars, error, result >>

\* export_collections: one iteration of the loop, and the return after the
\* last one.  `canOpen` is whether open(filename, 'w') succeeds.
ExportCollection ==
    /\ pc = "coll_loop"
    /\ i <= Len(collections)
    /\ requests < MaxRequests
    /\ requests' = requests + 1
    /\ \E r \in make_request(CollectionResponses), canOpen \in BOOLEAN :
         LET collection == collections[i]
             u == IF r.ok THEN unwrap(r.body) ELSE [ ok |-> FALSE ]
             saved == u.ok /\ canOpen
             filename == FilePath(export_dir, "collections", safe_name(collection.name))
             count == next_count(exported_count, saved)
             k == next_item(i, Len(collections), saved)
         IN  /\ netlog' = Append(netlog, Call("get_collection", collection.id, r))
             /\ collLog' = Append(collLog,
                                  [ id |-> collection.id, name |-> collection.name,
                                    resp |-> IF r.ok THEN r.body ELSE NoResponse,
                                    written |-> saved ])
             /\ files' = IF saved THEN WriteFile(files, filename, u.content) ELSE files
             /\ exported_count' = count
             /\ i' = k
             /\ IF k <= Len(collections)
                THEN pc' = "coll_loop" /\ UNCHANGED collections_count
                ELSE pc' = "environments" /\ collections_count' = count
    /\ UNCHANGED << sanVars, uiVars, summary_writes, runs, clock, dirs, ghostVars, config, export_dir, wsVars,
                    collections, envVars, error, result >>

\* export_postman_collections skips export_environments when the toggle is off.
SkipEnvironments ==
    /\ pc = "environments"
    /\ ~ config.export_environments
    /\ pc' = "summary"
    /\ UNCHANGED << sanVars, uiVars, summary_writes, runs, clock, requests, fsVars, ghostVars, config, export_dir, wsVars, netlog,
                    collVars, envVars, loopVars, error, result >>

\* export_environments: the workspace detail call, up to the first iteration
ListEnvironments ==
    /\ pc = "environments"
    /\ config.export_environments
    /\ requests < MaxRequests
    /\ requests' = requests + 1
    /\ \E r \in make_request(WorkspaceDetailResponses) :
         LET workspace_data == IF r.ok THEN Get(r.body, "workspace", << >>) ELSE << >>
             listing == Get(workspace_data, "environments", << >>)
         IN  /\ netlog' = Append(netlog, Call("get_workspace", workspace_id, r))
             /\ environments' = listing
             /\ IF listing = << >>
                THEN /\ pc' = "summary"
                     /\ UNCHANGED loopVars
                ELSE /\ pc' = "env_loop"
                     /\ i' = 1
                     /\ exported_count' = 0
    /\ UNCHANGED << sanVars, uiVars, summary_writes, runs, clock, fsVars, ghostVars, config, export_dir, wsVars,
                    collVars, envLog, environments_count, error, result >>

\* export_environments: one iteration of the loop, and the return after the
\* last one.
ExportEnvironment ==
    /\ pc = "env_loop"
    /\ i <= Len(environments)
    /\ requests < MaxRequests
    /\ requests' = requests + 1
    /\ \E r \in make_request(EnvironmentResponses), canOpen \in BOOLEAN :
         LET env == environments[i]
             u == IF r.ok THEN as_fetched(r.body) ELSE [ ok |-> FALSE ]
             saved == u.ok /\ canOpen
             filename == FilePath(export_dir, "environments", safe_name(env_name(env)))
             count == next_count(exported_count, saved)
             k == next_item(i, Len(environments), saved)
         IN  /\ netlog' = Append(netlog, Call("get_environment", env.id, r))
             /\ envLog' = Append(envLog,
                                 [ id |-> env.id, name |-> env_name(env),
                                   resp |-> IF r.ok THEN r.body ELSE NoResponse,
                                   written |-> saved ])
             /\ files' = IF saved THEN WriteFile(files, filename, u.content) ELSE files
             /\ exported_count' = count
             /\ i' = k
             /\ IF k <= Len(environments)
                THEN pc' = "env_loop" /\ UNCHANGED environments_count
                ELSE pc' = "summary" /\ environments_count' = count
    /\ UNCHANGED << sanVars, uiVars, summary_writes, runs, clock, dirs, ghostVars, config, export_dir, wsVars,
                    collVars, environments, error, result >>

\* A summary record with the two counts in each other's place.
summary_record_swapped(dir, collections_n, environments_n, cfg) ==
    [ workspace_type |-> cfg.workspace_type,
      workspace_name |-> IF cfg.workspace_name # "" THEN cfg.workspace_name
                         ELSE "Not specified",
      collections_exported |-> environments_n,
      environments_exported |-> collections_n,
      export_directory |-> dir ]

\* The summary record of create_summary_file (export_date left out: no two
\* runs are told apart by it here).
summary_record(dir, collections_n, environments_n, cfg) ==
    [ workspace_type |-> cfg.workspace_type,
      workspace_name |-> IF cfg.workspace_name # "" THEN cfg.workspace_name
                         ELSE "Not specified",
      collections_exported |-> collections_n,
      environments_exported |-> environments_n,
      export_directory |-> dir ]

\* create_summary_file, and the return of export_postman_collections
CreateSummary ==
    /\ pc = "summary"
    /\ LET summary == summary_record(export_dir, collections_count,
                                     environments_count, config)
       IN  /\ files' = WriteFile(files, FilePath(export_dir, "", SummaryName), summary)
           /\ result' = [ export_directory |-> export_dir,
                          collections_count |-> collections_count,
                          environments_count |-> environments_count,
                          workspace_info |-> workspace_info,
                          summary |-> summary ]
    /\ summary_writes' = summary_writes + 1
    /\ pc' = "done"
    /\ UNCHANGED << sanVars, uiVars, runs, clock, requests, dirs, ghostVars, config, export_dir, wsVars, netlog,
                    collVars, envVars, loopVars, error >>

Next ==
    \/ \E cfg \in ConfigInputs, dt \in { 0, 1 } : StartRun(cfg, dt)
    \/ ValidateConfig
    \/ CreateExportDirectory
    \/ GetWorkspace
    \/ ListCollections
    \/ ExportCollection
    \/ SkipEnvironments
    \/ ListEnvironments
    \/ ExportEnvironment
    \/ CreateSummary

Spec == Init /\ [][Next]_vars

\* ----------------------------------------------------------- the front-end
\* The configurations the form of postman_web_ui.py builds: the key is not
\* empty (an empty one is refused before anything is called), the type is one
\* of the select box, or 'personal' when the workspace is chosen by id.
UiConfigInputs ==
    { [ BaseConfig EXCEPT !.workspace_id = "", !.workspace_type = t,
                          !.workspace_name = n ]
        : t \in { "team", "all" }, n \in { "", "N2" } }
      \cup { [ BaseConfig EXCEPT !.workspace_type = "personal",
                                 !.export_environments = ee ] : ee \in BOOLEAN }

\* The page before the button is pressed.
UiInit ==
    /\ RunInit
    /\ san_pc = "off"
    /\ san_name = << >>
    /\ san_once = << >>
    /\ san_twice = << >>
    /\ ui_pc = "idle"
    /\ ui_config = None
    /\ ui_workspace_id = None
    /\ ui_workspace_info = None
    /\ session_export_results = None
    /\ session_workspace_info = None

\* "Start Export" is pressed: config is built from the form.
UiPressExport(cfg) ==
    /\ ui_pc = "idle"
    /\ ui_config' = cfg
    /\ ui_pc' = "validate"
    /\ UNCHANGED << runVars, sanVars, ui_workspace_id, ui_workspace_info,
                    session_export_results, session_workspace_info >>

\* Step 1: validate_config(config); an exception ends the press.
UiValidateConfig ==
    /\ ui_pc = "validate"
    /\ ui_pc' = IF validate_config(ui_config).ok THEN "resolve" ELSE "failed"
    /\ UNCHANGED << runVars, sanVars, ui_config, ui_workspace_id, ui_workspace_info,
                    session_export_results, session_workspace_info >>

\* Step 2: workspace_result = get_workspace(config), and its unpacking. The
\* listing request is the front-end's own, made before the run and outside
\* the run's request log.
UiGetWorkspace ==
    /\ ui_pc = "resolve"
    /\ \E r \in make_request(WorkspaceListResponses) :
         LET w == get_workspace(ui_config, r)
         IN  IF w.raised
             THEN /\ ui_pc' = "failed"
                  /\ UNCHANGED << ui_workspace_id, ui_workspace_info >>
             ELSE /\ ui_pc' = "call"
                  /\ ui_workspace_id' = w.id
                  /\ ui_workspace_info' = w.info
    /\ UNCHANGED << runVars, sanVars, ui_config, session_export_results,
                    session_workspace_info >>

\* Step 3: result = export_postman_collections(config) is called.
UiCallExport ==
    /\ ui_pc = "call"
    /\ BeginRun(ui_config, 0)
    /\ ui_pc' = "export"
    /\ UNCHANGED << ui_config, ui_workspace_id, ui_workspace_info,
                    session_export_results, session_workspace_info >>

\* Step 4: the run returned; the result and the front-end's own workspace
\* descriptor go to the session state, from which they are displayed.
UiComplete ==
    /\ ui_pc = "export"
    /\ pc = "done"
    /\ session_export_results' = result
    /\ session_workspace_info' = ui_workspace_info
    /\ ui_pc' = "shown"
    /\ UNCHANGED << runVars, sanVars, ui_config, ui_workspace_id, ui_workspace_info >>

\* except Exception: the run raised; the error is shown, nothing is stored.
UiExportFailed ==
    /\ ui_pc = "export"
    /\ pc = "failed"
    /\ ui_pc' = "failed"
    /\ UNCHANGED << runVars, sanVars, ui_config, ui_workspace_id, ui_workspace_info,
                    session_export_results, session_workspace_info >>

UiNext ==
    \/ \E cfg \in UiConfigInputs : UiPressExport(cfg)
    \/ UiValidateConfig
    \/ UiGetWorkspace
    \/ UiCallExport
    \/ ValidateConfig
    \/ CreateExportDirectory
    \/ GetWorkspace
    \/ ListCollections
    \/ ExportCollection
    \/ SkipEnvironments
    \/ ListEnvironments
    \/ ExportEnvironment
    \/ CreateSummary
    \/ UiComplete
    \/ UiExportFailed

UiSpec == UiInit /\ [][UiNext]_vars

\* ------------------------------------------------- sanitization on its own
\* The characters display names are made of here: a letter, a space, the two
\* other characters sanitization keeps, one it replaces, and a whitespace
\* character that is not a space (replaced too, so that strip() only ever
\* meets spaces).
NameChars == { "a", " ", "-", "_", "/", "\t" }

SanitizeInputs == SeqsUpTo(NameChars, MaxNameLen)

SanitizeInit ==
    /\ RunInit
    /\ UiOff
    /\ san_pc = "input"
    /\ san_name \in SanitizeInputs
    /\ san_once = << >>
    /\ san_twice = << >>

\* The sanitization of export_collections / export_environments, applied to
\* the display name.
SanitizeName ==
    /\ san_pc = "input"
    /\ san_once' = safe_name(san_name)
    /\ san_pc' = "once"
    /\ UNCHANGED << runVars, uiVars, san_name, san_twice >>

\* The same sanitization, applied to the sanitized name.
SanitizeAgain ==
    /\ san_pc = "once"
    /\ san_twice' = safe_name(san_once)
    /\ san_pc' = "twice"
    /\ UNCHANGED << runVars, uiVars, san_name, san_once >>

SanitizeNext == SanitizeName \/ SanitizeAgain

SanitizeSpec == SanitizeInit /\ [][SanitizeNext]_vars


\* =================================================================== claims
\* Helper vocabulary of the properties below.

Running == pc # "idle"
AfterValidation == pc \notin { "idle", "validate" }
AfterResolution == pc \in { "collections", "coll_loop", "environments",
                            "env_loop", "summary", "done" }

\* A logged item failed: its fetch raised, its response has no envelope (for
\* collections), or its file could not be written.
CollectionFailed(e) ==
    e.resp = NoResponse \/ "collection" \notin DOMAIN e.resp \/ ~ e.written
Failures == { k \in DOMAIN collLog : CollectionFailed(collLog[k]) }
Successes == (DOMAIN collLog) \ Failures

CollectionFiles(fs) == FileNames(fs, export_dir, "collections")
SummaryPath == FilePath(export_dir, "", SummaryName)

\* The ids the run asked `call` for, in the order of the requests.
RECURSIVE ArgsOf(_, _)
ArgsOf(log, call) ==
    IF log = << >> THEN << >>
    ELSE IF Head(log).call = call
    THEN << Head(log).arg >> \o ArgsOf(Tail(log), call)
    ELSE ArgsOf(Tail(log), call)

ListingCalls == { "list_workspaces", "list_collections", "get_workspace" }

\* ----------------------------------------------------------------------- C1
\* C1 (as claimed): when a run ends on a listing of N collections of which
\* M < N failed, export_collections returned N-M and exactly N-M files exist
\* under <exportDir>/collections.
C1_AsClaimed ==
    ( pc = "done" /\ collections # << >>
        /\ Cardinality(Failures) < Len(collections) )
    => /\ collections_count = Len(collections) - Cardinality(Failures)
       /\ Cardinality(CollectionFiles(files))
            = Len(collections) - Cardinality(Failures)

\* C1 (amended): when a run ends on a listing of N collections of which M < N
\* failed, export_collections returned N-M, and the files under
\* <exportDir>/collections are those the run found there plus one file per
\* distinct sanitized name among the N-M successful items; they number N-M
\* when those names are pairwise distinct and the directory held no
\* collection file before the run.
C1_CountAndFiles ==
    ( pc = "done" /\ collections # << >>
        /\ Cardinality(Failures) < Len(collections) )
    => LET names == { safe_name(collLog[k].name) : k \in Successes }
       IN  /\ collections_count = Len(collections) - Cardinality(Failures)
           /\ CollectionFiles(files) = CollectionFiles(preFiles) \cup names
           /\ ( CollectionFiles(preFiles) = { }
                  /\ Cardinality(names) = Cardinality(Successes) )
              => Cardinality(CollectionFiles(files))
                   = Len(collections) - Cardinality(Failures)

\* C1 witness: a run ended with two collections listed, one failed, one file.
C1_Witness ==
    /\ pc = "done"
    /\ Len(collections) = 2
    /\ Cardinality(Failures) = 1
    /\ collections_count = 1
    /\ Cardinality(CollectionFiles(files)) = 1

\* ----------------------------------------------------------------------- C2
\* C2 (as claimed): once a listing or workspace-resolution call (list
\* workspaces, list collections, get workspace detail) has raised, the run has
\* failed with that error and returns no result.
C2_ListingErrorIsFatal ==
    ( Running /\ \E k \in DOMAIN netlog :
                    netlog[k].call \in ListingCalls /\ ~ netlog[k].ok )
    => ( pc = "failed" /\ error # None /\ result = None )

\* ----------------------------------------------------------------------- C3
\* C3: a run whose configuration has a missing or empty credential, or a
\* workspace_type outside the six valid ones, fails in validation with a
\* ValueError and has issued no network call.
InvalidConfig(cfg) ==
    \/ cfg.api_key \in { Absent, "" }
    \/ cfg.workspace_type
         \notin { "personal", "team", "private", "public", "partner", "all" }

C3_InvalidConfigNoNetwork ==
    ( AfterValidation /\ InvalidConfig(config) )
    => /\ pc = "failed"
       /\ error # None /\ error.kind = "ValueError"
       /\ netlog = << >>
       /\ result = None

\* C3 witness: a run with a missing credential has failed.
C3_Witness ==
    /\ pc = "failed"
    /\ config.api_key = Absent
    /\ netlog = << >>


\* ----------------------------------------------------------------------- C4
\* The run looked a team workspace up by type (no id), the listing call
\* answered, and the listing it got holds no workspace of type team.
C4_NoTeamWorkspace ==
    /\ pc \in { "collections", "failed" }
    /\ ~ InvalidConfig(config)
    /\ config.workspace_id = "" /\ config.workspace_type = "team"
    /\ netlog # << >> /\ netlog[1].call = "list_workspaces" /\ netlog[1].ok
    /\ \A k \in DOMAIN workspaces : workspaces[k].type # "team"

NamesTeam(msg) == \E k \in DOMAIN msg : msg[k] = "team"

\* C4 (as claimed): in that case the run fails with an error whose message
\* names 'team', and nothing has been written to the filesystem by the run.
C4_AsClaimed ==
    C4_NoTeamWorkspace
    => /\ pc = "failed"
       /\ NamesTeam(error.msg)
       /\ dirs = preDirs
       /\ files = preFiles

\* C4 (amended): in that case the run fails with an exception, whose message
\* names 'team' when the listing is not empty and is "No workspaces found"
\* when it is empty; the run has created the export directory and its
\* collections subdirectory (and environments, when enabled) before resolving
\* the workspace, and it has created or changed no file.
C4_FailsWithoutFiles ==
    C4_NoTeamWorkspace
    => /\ pc = "failed"
       /\ error.kind = "Exception"
       /\ workspaces # << >> => NamesTeam(error.msg)
       /\ workspaces = << >> => error.msg = << "No workspaces found" >>
       /\ files = preFiles
       /\ result = None
       /\ dirs = preDirs
            \cup { DirPath(export_dir, ""), DirPath(export_dir, "collections") }
            \cup ( IF config.export_environments
                   THEN { DirPath(export_dir, "environments") } ELSE { } )

\* C4 witness: a team lookup has failed on a listing of other workspaces.
C4_Witness ==
    /\ C4_NoTeamWorkspace
    /\ workspaces # << >>
    /\ pc = "failed"
    /\ NamesTeam(error.msg)
    /\ DirPath(export_dir, "collections") \in dirs \ preDirs

\* ----------------------------------------------------------------------- C5
PriorFilesIn(dir) == { p \in DOMAIN preFiles : p.dir = dir }

\* C5 (as claimed): the directory a later run writes to holds no file of an
\* earlier run.
C5_AsClaimed ==
    ( runs >= 2 /\ export_dir # << >> ) => PriorFilesIn(export_dir) = { }

\* C5 (amended): create_export_directory removes nothing and reuses an
\* existing directory as it is.  The directory of a run holds no file of an
\* earlier run when the run has the timestamp toggle on and no earlier run
\* created the directory of this base name and clock second; otherwise (toggle
\* off in both runs, or toggle on in both within one second) the earlier
\* run's files stay in the directory the later run writes to.
C5_FreshWhenNewSecond ==
    ( Running /\ export_dir # << >> )
    => /\ \A p \in DOMAIN preFiles : p \in DOMAIN files
       /\ preDirs \subseteq dirs
       /\ ( config.include_timestamp
              /\ DirPath(<< config.export_directory, clock >>, "") \notin preDirs )
          => PriorFilesIn(export_dir) = { }

\* C5 witness: a second run, timestamped, ended in a directory of its own
\* while the first run's files exist elsewhere.
C5_Witness ==
    /\ runs = 2 /\ pc = "done"
    /\ config.include_timestamp
    /\ DirPath(export_dir, "") \notin preDirs
    /\ DOMAIN preFiles # { }
    /\ PriorFilesIn(export_dir) = { }

\* ----------------------------------------------------------------------- C6
\* C6: with a non-empty workspace id configured, get_workspace issues no
\* request and returns that id (with no descriptor), whatever workspace_type
\* and workspace_name are; the run never lists the workspaces.
C6_ByIdNoNetwork ==
    ( Running /\ ~ InvalidConfig(config) /\ config.workspace_id # "" )
    => /\ pc # "failed"
       /\ \A k \in DOMAIN netlog : netlog[k].call # "list_workspaces"
       /\ AfterResolution
          => ( workspace_id = config.workspace_id /\ workspace_info = None )
       /\ pc = "collections" => netlog = << >>

\* C6 witness: get_workspace has returned the configured id although type and
\* name select something else.
C6_Witness ==
    /\ pc = "collections"
    /\ config.workspace_id = "w9"
    /\ config.workspace_type = "all" /\ config.workspace_name = "N2"
    /\ workspace_id = "w9"
    /\ netlog = << >>


\* ----------------------------------------------------------------------- C7
Ids(listing, n) == [ k \in 1..n |-> listing[k].id ]

Matches(cfg, w) ==
    /\ cfg.workspace_type = "all" \/ w.type = cfg.workspace_type
    /\ cfg.workspace_name = "" \/ w.name = cfg.workspace_name

\* get_workspace has just run without a configured id and its listing call
\* answered.
C8_LookedUp ==
    /\ pc \in { "collections", "failed" }
    /\ ~ InvalidConfig(config)
    /\ config.workspace_id = ""
    /\ netlog # << >> /\ netlog[1].call = "list_workspaces" /\ netlog[1].ok

\* C8: with no workspace id configured, get_workspace returns the first
\* workspace of the listing that passes both filters, and fails exactly when
\* the listing is empty or no workspace passes both.
C8_FirstMatch ==
    C8_LookedUp
    => /\ pc = "collections"
          => \E k \in DOMAIN workspaces :
                /\ Matches(config, workspaces[k])
                /\ \A j \in 1..(k - 1) : ~ Matches(config, workspaces[j])
                /\ workspace_id = workspaces[k].id
                /\ workspace_info = workspaces[k]
       /\ pc = "failed"
          <=> \A k \in DOMAIN workspaces : ~ Matches(config, workspaces[k])

\* C8 witness: two different workspaces pass the filters and the first one of
\* the listing was returned.
C8_Witness ==
    /\ C8_LookedUp /\ pc = "collections"
    /\ Len(workspaces) = 2
    /\ workspaces[1] # workspaces[2]
    /\ Matches(config, workspaces[1]) /\ Matches(config, workspaces[2])
    /\ workspace_info = workspaces[1]

\* ----------------------------------------------------------------------- C9
\* The log entries of the run whose file is `name`.
WrittenAs(name) ==
    { k \in DOMAIN collLog : collLog[k].written /\ safe_name(collLog[k].name) = name }

\* C9 (as claimed): every file under <exportDir>/collections at the end of a
\* run holds the 'collection' field of the fetch response of a listed
\* collection whose sanitized name is the file's name.
C9_AsClaimed ==
    pc = "done"
    => \A p \in DOMAIN files :
          ( p.dir = export_dir /\ p.sub = "collections" )
          => \E k \in DOMAIN collLog :
                /\ safe_name(collLog[k].name) = p.name
                /\ "collection" \in DOMAIN collLog[k].resp
                /\ files[p] = collLog[k].resp.collection

\* C9 (amended): every file under <exportDir>/collections at the end of a run
\* either was written by the run, and then holds the 'collection' field of
\* the fetch response of a listed collection whose sanitized name is the
\* file's name (never the wrapped response), or was left by an earlier run
\* into the same directory and is as that run left it.
C9_WrittenFilesAreUnwrapped ==
    pc = "done"
    => \A p \in DOMAIN files :
          ( p.dir = export_dir /\ p.sub = "collections" )
          => IF WrittenAs(p.name) # { }
             THEN \E k \in WrittenAs(p.name) :
                     /\ "collection" \in DOMAIN collLog[k].resp
                     /\ files[p] = collLog[k].resp.collection
             ELSE p \in DOMAIN preFiles /\ files[p] = preFiles[p]

\* C9 witness: a run ended having written a collection file that did not
\* exist before.
C9_Witness ==
    /\ pc = "done"
    /\ \E p \in DOMAIN files :
          /\ p.dir = export_dir /\ p.sub = "collections"
          /\ p \notin DOMAIN preFiles
          /\ files[p] \in Docs

\* ---------------------------------------------------------------------- C10
\* The step just taken fetched a collection whose response has no envelope.
C10_FetchedWithoutEnvelope ==
    /\ Len(collLog') = Len(collLog) + 1
    /\ collLog'[Len(collLog')].resp # NoResponse
    /\ "collection" \notin DOMAIN collLog'[Len(collLog')].resp

\* C10: a collection whose fetch response has no 'collection' field is a
\* failure of that item only: the step writes no file, leaves exported_count
\* as it is, raises nothing out of the loop and moves on to the next item (or
\* returns, after the last one).
C10_MissingEnvelopeSkipsItem ==
    [][ C10_FetchedWithoutEnvelope
        => /\ files' = files
           /\ exported_count' = exported_count
           /\ ~ collLog'[Len(collLog')].written
           /\ i' = i + 1
           /\ error' = None
           /\ pc' = IF i < Len(collections) THEN "coll_loop" ELSE "environments"
      ]_vars

\* C10 witness: the first of two collections came without envelope, nothing
\* was written or counted for it, and the loop is at the second item.
C10_Witness ==
    /\ pc = "coll_loop" /\ i = 2
    /\ Len(collLog) = 1
    /\ collLog[1].resp # NoResponse
    /\ "collection" \notin DOMAIN collLog[1].resp
    /\ exported_count = 0
    /\ CollectionFiles(files) = CollectionFiles(preFiles)


\* ---------------------------------------------------------------------- C11
\* Every character of the name is one that sanitization keeps.
OnlyKeptChars(name) ==
    \A k \in DOMAIN name : name[k] = "a" \/ name[k] \in { " ", "-", "_" }

\* C11: sanitizing a sanitized name yields the same name; a sanitized name
\* has only kept characters and no space at either end.
C11_SanitizeIdempotent ==
    /\ san_pc \in { "once", "twice" }
       => /\ Len(san_once) <= Len(san_name)
          /\ OnlyKeptChars(san_once)
          /\ san_once # << >> => ( san_once[1] # " " /\ san_once[Len(san_once)] # " " )
    /\ san_pc = "twice" => san_twice = san_once

\* C11 witness: a name with replaced characters and surrounding spaces was
\* sanitized twice, the first time changing it.
C11_Witness ==
    /\ san_pc = "twice"
    /\ san_name = << " ", " ", "/" >>
    /\ san_once = << "_" >>
    /\ san_twice = << "_" >>


\* ---------------------------------------------------------------------- C12
\* The entries of `log` that were written to the file `name`.
WrittenTo(log, name) ==
    { k \in DOMAIN log : log[k].written /\ safe_name(log[k].name) = name }

Last(S) == CHOOSE k \in S : \A j \in S : j <= k

WrittenCount(log) == Cardinality({ k \in DOMAIN log : log[k].written })

\* C12: at the end of a run, each file name the run wrote to, in collections
\* and in environments, holds the content of the last resource in listing
\* order that was written under that sanitized name; every written resource
\* is counted as exported, also those overwritten; the run ended without an
\* error.
C12_LaterOverwritesEarlier ==
    pc = "done"
    => /\ \A k \in DOMAIN collLog :
             collLog[k].written
             => LET name == safe_name(collLog[k].name)
                    path == FilePath(export_dir, "collections", name)
                IN  /\ path \in DOMAIN files
                    /\ files[path]
                         = collLog[Last(WrittenTo(collLog, name))].resp.collection
       /\ \A k \in DOMAIN envLog :
             envLog[k].written
             => LET name == safe_name(envLog[k].name)
                    path == FilePath(export_dir, "environments", name)
                IN  /\ path \in DOMAIN files
                    /\ files[path] = envLog[Last(WrittenTo(envLog, name))].resp
       /\ collections_count = WrittenCount(collLog)
       /\ environments_count = WrittenCount(envLog)
       /\ error = None

\* C12 witness: two collections with different names and different contents
\* were written under one sanitized name; the one file holds the later
\* content and both are counted.
C12_Witness ==
    /\ pc = "done"
    /\ Len(collLog) = 2
    /\ collLog[1].written /\ collLog[2].written
    /\ collLog[1].name # collLog[2].name
    /\ safe_name(collLog[1].name) = safe_name(collLog[2].name)
    /\ collLog[1].resp # collLog[2].resp
    /\ CollectionFiles(files) = { safe_name(collLog[2].name) }
    /\ files[FilePath(export_dir, "collections", safe_name(collLog[2].name))]
         = collLog[2].resp.collection
    /\ collections_count = 2
    /\ error = None


\* ---------------------------------------------------------------------- C13
\* The summary file of the run's directory is as the run found it.
SummaryUntouched ==
    /\ SummaryPath \in DOMAIN files <=> SummaryPath \in DOMAIN preFiles
    /\ SummaryPath \in DOMAIN files => files[SummaryPath] = preFiles[SummaryPath]

\* C13: until a run returns it has not written export_summary.json; when it
\* has returned normally it has written it exactly once, both loops had gone
\* through their whole listings, and the collections_exported and
\* environments_exported fields of the file are the numbers of items the two
\* loops wrote, which are also the counts returned to the caller.
C13_SummaryOnceAfterLoops ==
    /\ ( Running /\ pc # "done" ) => ( summary_writes = 0 /\ SummaryUntouched )
    /\ pc = "done"
       => /\ summary_writes = 1
          /\ Len(collLog) = Len(collections)
          /\ Len(envLog) = Len(environments)
          /\ SummaryPath \in DOMAIN files
          /\ files[SummaryPath].collections_exported = WrittenCount(collLog)
          /\ files[SummaryPath].environments_exported = WrittenCount(envLog)
          /\ result.collections_count = WrittenCount(collLog)
          /\ result.environments_count = WrittenCount(envLog)

\* C13 witness: a run returned after a loop that wrote one collection and
\* failed on another, and the summary counts the one.
C13_Witness ==
    /\ pc = "done"
    /\ summary_writes = 1
    /\ Len(collLog) = 2
    /\ WrittenCount(collLog) = 1
    /\ files[SummaryPath].collections_exported = 1
    /\ files[SummaryPath].environments_exported = 0
    /\ result.collections_count = 1


\* ---------------------------------------------------------------------- C14
\* C14: when the front-end has stored a workspace descriptor for display, it
\* is the descriptor of the workspace the run exported: the same id, and the
\* same descriptor as the run resolved.
C14_DisplayedIsExported ==
    ( ui_pc = "shown" /\ session_workspace_info # None )
    => /\ session_workspace_info.id = workspace_id
       /\ session_workspace_info = workspace_info

====
